---- MODULE Spec2Model ----
(***************************************************************************)
(* A model of the factory Builder (builder.go) and of its Instances         *)
(* (instance.go): the prototype map, the setter functions, the ordered      *)
(* instance registry, the maps the instances point to, and the statements   *)
(* handed to the PersistFunc by Save.                                       *)
(*                                                                          *)
(* Go maps are reference values.  No call makes two instances point to the  *)
(* same map, so an instance's maps are kept in the instance: contents and   *)
(* persistedContents hold the maps and persistedRef says what the field     *)
(* persistedContents points to: nothing ("nil"), the very map contents      *)
(* points to ("contents": after Find, after persist) or a map of its own    *)
(* ("own").                                                                 *)
(*                                                                          *)
(* JSON text is a sequence of <<key, token>> fields; unmarshalling turns it *)
(* into a function from keys to values (the last duplicate key wins).       *)
(***************************************************************************)
EXTENDS Integers, Sequences, FiniteSets, TLC

VARIABLES
    prototypes,   \* Builder.prototypes: key -> Prototype
    setterFuncs,  \* Builder.setterFuncs: variable name -> generator
    instances,    \* Builder.instances: sequence of Instance records
    uuidCalls,    \* how many values the uuid source has handed out
    result,       \* the last call: what it returned or the panic it raised,
                  \* and the calls it made to Builder.persistFunc, in order
    made,         \* history: how each registry entry came to be (by Build or
                  \* by Find, from which prototype, with which contents)
    written,      \* history: per registry entry, the contents of the last
                  \* statement the PersistFunc accepted for it, if any
    builder2      \* a second Builder, made by another call of NewBuilder:
                  \* its prototypes, setterFuncs and instances (with their
                  \* histories); the variables above are those of the
                  \* Builder the calls are made on

vars ==
    <<prototypes, setterFuncs, instances, uuidCalls, result, made, written,
      builder2>>

(***************************************************************************)
(* Bounds of the model.                                                     *)
(***************************************************************************)
MaxInstances == 3
\* The instances of each Builder where there are two.
MaxEach == 1

(***************************************************************************)
(* Values.                                                                  *)
(***************************************************************************)
None == <<>>
EmptyMap == [k \in {} |-> ""]

uuidVar == "uuid"
customVar == "customName"

\* A token no JSON parser accepts as a value.
BadJSON == "<not json>"

\* varReplacementRegex: the markers of the model's outlines and the
\* variable name each one captures.
MarkerVar ==
    ("{{uuid}}" :> uuidVar) @@ ("{{customName}}" :> customVar)

IsMarker(tok) == tok \in DOMAIN MarkerVar

\* The value the uuid source returns on its n-th call: never the same twice.
UuidString(n) == "uuid-" \o ToString(n)

\* A setter function: fresh = TRUE is a generator that returns a new value
\* on every call, otherwise it returns val.
UuidSetter == [fresh |-> TRUE, val |-> ""]
ConstSetter(v) == [fresh |-> FALSE, val |-> v]

\* f(): the returned value and the number of uuid values handed out after it.
CallSetter(f, calls) ==
    IF f.fresh
    THEN [val |-> UuidString(calls + 1), calls |-> calls + 1]
    ELSE [val |-> f.val, calls |-> calls]

(***************************************************************************)
(* JSON text.                                                               *)
(***************************************************************************)
JSONValid(text) ==
    \A i \in 1..Len(text) : text[i][1] # BadJSON /\ text[i][2] # BadJSON

\* json.Unmarshal into a map: one entry per key, the last occurrence wins.
Unmarshal(text) ==
    [k \in {text[i][1] : i \in 1..Len(text)} |->
        text[CHOOSE i \in 1..Len(text) :
                /\ text[i][1] = k
                /\ \A j \in (i+1)..Len(text) : text[j][1] # k][2]]

\* A search that stops at the first occurrence.
FindStringSubmatch(outline) ==
    IF \E i \in 1..Len(outline) : IsMarker(outline[i][2])
    THEN <<outline[CHOOSE i \in 1..Len(outline) :
                      /\ IsMarker(outline[i][2])
                      /\ \A j \in 1..(i - 1) : ~IsMarker(outline[j][2])][2]>>
    ELSE <<>>

\* regexp.FindAllStringSubmatch(outline, -1): every occurrence, in order.
RECURSIVE FindAllStringSubmatch(_)
FindAllStringSubmatch(outline) ==
    IF outline = <<>> THEN <<>>
    ELSE (IF IsMarker(Head(outline)[2]) THEN <<Head(outline)[2]>> ELSE <<>>)
         \o FindAllStringSubmatch(Tail(outline))

\* strings.ReplaceAll(outline, old, new)
ReplaceAll(outline, old, new) ==
    [i \in 1..Len(outline) |->
        <<outline[i][1], IF outline[i][2] = old THEN new ELSE outline[i][2]>>]

(***************************************************************************)
(* Prototypes and the arguments the calls are made with.                    *)
(***************************************************************************)
\* Prototype{TableName, Outline, BuildOnly, Name}; Name is an optional
\* alias (a *string): None when nil, <<alias>> when set.
Prototype(tableName, outline, buildOnly, name) ==
    [TableName |-> tableName, Outline |-> outline,
     BuildOnly |-> buildOnly, Name |-> name]

OutlineUser == << <<"id", "{{uuid}}">>, <<"username", "jenny">> >>
OutlineTwice == << <<"id", "{{uuid}}">>, <<"ref", "{{uuid}}">> >>
OutlineCustom == << <<"username", "{{customName}}">> >>
OutlineEmpty == << >>
OutlineBad == << <<"username", BadJSON>> >>

Prototypes ==
    { Prototype("users", OutlineUser, FALSE, None),
      Prototype("users", OutlineUser, TRUE, None),
      Prototype("users", OutlineTwice, FALSE, <<"jenny">>),
      Prototype("users", OutlineCustom, FALSE, None),
      Prototype("users", OutlineEmpty, FALSE, None),
      Prototype("users", OutlineBad, FALSE, None) }

\* The prototypes of the tests that persist: one saved, one build-only.
PersistPrototypes ==
    { Prototype("users", OutlineUser, FALSE, None),
      Prototype("users", OutlineUser, TRUE, None) }

\* A prototype whose outline is the empty object, and the one of the tests.
EmptyPrototypes ==
    { Prototype("users", OutlineEmpty, FALSE, None),
      Prototype("users", OutlineUser, FALSE, None) }

\* The prototype of the tests that look instances up.
LookupPrototypes == { Prototype("users", OutlineUser, FALSE, None) }

PrototypeNames == {"users", "jenny"}
InstanceNames == {None, <<"a">>}
LookupNames == {"users", "a"}
LookupIndexes == {None, <<0>>, <<1>>, <<2>>}
SetterNames == {customVar}
SetterFuncs == {ConstSetter("jimminy cricket")}
WithAttrs == {"username"}
WithValues == {"johnny"}
Tables == {"users"}

\* The attributes and values of the tests that change and read instances:
\* one key the outline has, one it has not.
HandleAttrs == {"username", "email"}
GetAttrs == {"id", "username", "email"}
\* The store of these tests answers with at most one row.
OneRow == 1

\* The filter text handed to Find.
Queries ==
    { << <<"username", "jenny1">> >>, << <<"username", BadJSON>> >> }

\* What the QueryFunc answers: an error, or the JSON text of an array of
\* row objects (valid = FALSE: text that is no JSON array).
RowTexts ==
    { << <<"id", "r1">>, <<"username", "jenny1">> >>, << >> }
RowSeqs(max) == UNION {[1..n -> RowTexts] : n \in 0..max}
QueryError == [err |-> TRUE, valid |-> FALSE, rows |-> <<>>]
QueryReplies(max) ==
    {QueryError, [err |-> FALSE, valid |-> FALSE, rows |-> <<>>]}
    \cup {[err |-> FALSE, valid |-> TRUE, rows |-> rs] : rs \in RowSeqs(max)}

\* The ways a Find can go: <<filter text, ToSql fails, QueryFunc's answer>>;
\* what is never looked at is not varied.
FoundInputs(max) ==
    {<<q, FALSE, [err |-> FALSE, valid |-> TRUE, rows |-> rs]>> :
        q \in {q \in Queries : JSONValid(q)}, rs \in RowSeqs(max)}

FindInputs(max) ==
    {<<q, FALSE, QueryError>> : q \in {q \in Queries : ~JSONValid(q)}}
    \cup {<<q, TRUE, QueryError>> : q \in {q \in Queries : JSONValid(q)}}
    \cup {<<q, FALSE, reply>> : q \in {q \in Queries : JSONValid(q)},
                               reply \in QueryReplies(max)}

\* What the statement builder and the PersistFunc do for one instance.
Outcomes == {"ok", "sqlerr", "execerr"}

NoPanic == ""
\* What a call gives back: the instances it returns (registry positions),
\* or the panic that ended it; and the calls it made to the PersistFunc.
Result(op, ret, panic, calls) ==
    [op |-> op, ret |-> ret, panic |-> panic, calls |-> calls]

\* The Builder NewBuilder returns: maps and a slice of its own.
NewBuilder ==
    [prototypes |-> [k \in {} |-> Prototype("", <<>>, FALSE, None)],
     setterFuncs |-> (uuidVar :> UuidSetter),
     instances |-> <<>>, made |-> <<>>, written |-> <<>>]

Init ==
    /\ prototypes = [k \in {} |-> Prototype("", <<>>, FALSE, None)]
    /\ setterFuncs = (uuidVar :> UuidSetter)
    /\ instances = <<>>
    /\ uuidCalls = 0
    /\ result = Result("NewBuilder", <<>>, NoPanic, <<>>)
    /\ made = <<>>
    /\ written = <<>>
    /\ builder2 = NewBuilder

(***************************************************************************)
(* LoadPrototype, LoadSetterFunc                                            *)
(***************************************************************************)
PrototypeKey(prototype) == prototype.TableName

\* A LoadPrototype that keeps the prototype a key already has.
LoadPrototypeKeepFirst(prototype) ==
    /\ prototypes' = prototypes @@ (PrototypeKey(prototype) :> prototype)
    /\ result' = Result("LoadPrototype", <<>>, NoPanic, <<>>)
    /\ UNCHANGED <<setterFuncs, instances, uuidCalls, made, written,
                            builder2>>

LoadPrototype(prototype) ==
    /\ prototypes' = (PrototypeKey(prototype) :> prototype) @@ prototypes
    /\ result' = Result("LoadPrototype", <<>>, NoPanic, <<>>)
    /\ UNCHANGED <<setterFuncs, instances, uuidCalls, made, written,
                            builder2>>

LoadSetterFunc(name, f) ==
    /\ setterFuncs' = (name :> f) @@ setterFuncs
    /\ result' = Result("LoadSetterFunc", <<>>, NoPanic, <<>>)
    /\ UNCHANGED <<prototypes, instances, uuidCalls, made, written,
                            builder2>>

(***************************************************************************)
(* Build                                                                    *)
(***************************************************************************)
\* The replacement loop: one f() per element of found, each replacing
\* every occurrence of its marker that is still in the outline.  invoked
\* lists the names of the setter functions called, in order.
RECURSIVE ExpandVars(_, _, _, _)
ExpandVars(outline, found, setters, calls) ==
    IF found = <<>>
    THEN [panic |-> NoPanic, outline |-> outline, calls |-> calls,
          invoked |-> <<>>]
    ELSE IF MarkerVar[Head(found)] \notin DOMAIN setters
    THEN [panic |-> "no setter function found", outline |-> outline,
          calls |-> calls, invoked |-> <<>>]
    ELSE LET r == CallSetter(setters[MarkerVar[Head(found)]], calls)
             rest == ExpandVars(ReplaceAll(outline, Head(found), r.val),
                                Tail(found), setters, r.calls)
         IN  [rest EXCEPT !.invoked = <<MarkerVar[Head(found)]>> \o @]

\* A Build that reuses the values generated for the first instance.
ExpandCached(outline, setters, calls) ==
    [ExpandVars(outline, FindAllStringSubmatch(outline), setters, 0)
        EXCEPT !.calls = calls + @]

\* The outline with its variables replaced: the markers are collected
\* first, from the outline as loaded, then replaced one by one.
Expand(outline, setters, calls) ==
    ExpandVars(outline, FindAllStringSubmatch(outline), setters, calls)

\* Build up to the unmarshalled contents, or the panic that ends it.
BuildContents(protos, setters, calls, prototypeName) ==
    IF prototypeName \notin DOMAIN protos
    THEN [panic |-> "no prototype found", calls |-> calls, invoked |-> <<>>,
          contents |-> EmptyMap]
    ELSE LET e == Expand(protos[prototypeName].Outline, setters, calls)
         IN  IF e.panic # NoPanic
             THEN [panic |-> e.panic, calls |-> e.calls, invoked |-> e.invoked,
                   contents |-> EmptyMap]
             ELSE IF ~JSONValid(e.outline)
             THEN [panic |-> "json error", calls |-> e.calls,
                   invoked |-> e.invoked, contents |-> EmptyMap]
             ELSE [panic |-> NoPanic, calls |-> e.calls, invoked |-> e.invoked,
                   contents |-> Unmarshal(e.outline)]

\* A name that is always the default.
OptionalNameIgnored(default, instanceName) == default

\* name := default; if len(instanceName) > 0 { name = instanceName[0] }
OptionalName(default, instanceName) ==
    IF Len(instanceName) > 0 THEN instanceName[1] ELSE default

\* A Build that forgets the prototype's BuildOnly flag.
NewBuiltInstanceSaved(name, prototypeName, proto, contents) ==
    [name |-> name, tableName |-> prototypeName, contents |-> contents,
     persistedContents |-> EmptyMap, persistedRef |-> "nil",
     persisted |-> FALSE, buildOnly |-> FALSE]

NewBuiltInstance(name, prototypeName, proto, contents) ==
    [name |-> name, tableName |-> prototypeName, contents |-> contents,
     persistedContents |-> EmptyMap, persistedRef |-> "nil",
     persisted |-> FALSE, buildOnly |-> proto.BuildOnly]

\* What Build gives back, and the setter functions it called.
BuildResult(ret, panic, invoked) ==
    [op |-> "Build", ret |-> ret, panic |-> panic, calls |-> <<>>,
     invoked |-> invoked]

\* A Build that appends the instance before it fills it in.
BuildAppendedFirst(prototypeName, instanceName) ==
    LET r == BuildContents(prototypes, setterFuncs, uuidCalls, prototypeName)
        name == OptionalName(prototypeName, instanceName)
        proto == IF prototypeName \in DOMAIN prototypes
                 THEN prototypes[prototypeName]
                 ELSE Prototype(prototypeName, <<>>, FALSE, None)
    IN  /\ Len(instances) < MaxInstances
        /\ uuidCalls' = r.calls
        /\ instances' = Append(instances,
                               NewBuiltInstance(name, prototypeName, proto,
                                                r.contents))
        /\ made' = Append(made, [by |-> "Build", proto |-> proto,
                                 contents |-> r.contents])
        /\ written' = Append(written, <<>>)
        /\ result' = BuildResult(IF r.panic = NoPanic
                                 THEN <<Len(instances) + 1>> ELSE <<>>,
                                 r.panic, r.invoked)
        /\ UNCHANGED <<prototypes, setterFuncs, builder2>>

Build(prototypeName, instanceName) ==
    LET r == BuildContents(prototypes, setterFuncs, uuidCalls, prototypeName)
        name == OptionalName(prototypeName, instanceName)
    IN  /\ uuidCalls' = r.calls
        /\ IF r.panic # NoPanic
           THEN /\ result' = BuildResult(<<>>, r.panic, r.invoked)
                /\ UNCHANGED <<instances, made, written>>
           ELSE /\ Len(instances) < MaxInstances
                /\ instances' =
                      Append(instances,
                             NewBuiltInstance(name, prototypeName,
                                              prototypes[prototypeName],
                                              r.contents))
                /\ made' = Append(made, [by |-> "Build",
                                         proto |-> prototypes[prototypeName],
                                         contents |-> r.contents])
                /\ written' = Append(written, <<>>)
                /\ result' = BuildResult(<<Len(instances) + 1>>, NoPanic,
                                          r.invoked)
        /\ UNCHANGED <<prototypes, setterFuncs, builder2>>

(***************************************************************************)
(* Instance                                                                 *)
(***************************************************************************)
\* The nil *Instance: no registry position.
NotFound == 0

\* The loop of Builder.Instance from registry position pos on, with i
\* same-named entries still to skip: the position found, or NotFound.
RECURSIVE InstanceScan(_, _, _, _)
InstanceScan(insts, pos, name, i) ==
    IF pos > Len(insts) THEN NotFound
    ELSE IF insts[pos].name = name
    THEN (IF i = 0 THEN pos ELSE InstanceScan(insts, pos + 1, name, i - 1))
    ELSE InstanceScan(insts, pos + 1, name, i)

OptionalIndex(index) == IF Len(index) > 0 THEN index[1] ELSE 0

\* An Instance that forgets the index.
InstanceLookupFirst(insts, name, index) == InstanceScan(insts, 1, name, 0)

InstanceLookup(insts, name, index) ==
    InstanceScan(insts, 1, name, OptionalIndex(index))

Instance(name, index) ==
    LET found == InstanceLookup(instances, name, index)
    IN  /\ result' =
              IF found = NotFound
              THEN Result("Instance", <<>>, "no instance found", <<>>)
              ELSE Result("Instance", <<found>>, NoPanic, <<>>)
        /\ UNCHANGED <<prototypes, setterFuncs, instances, uuidCalls,
                       made, written, builder2>>

(***************************************************************************)
(* Instance.With                                                            *)
(***************************************************************************)
\* A With whose new map holds attr only.
WithContentsOnly(m, attr, value) == [k \in {attr} |-> value]

\* newContents: a copy of m with attr set.
WithContents(m, attr, value) ==
    [k \in DOMAIN m \cup {attr} |-> IF k = attr THEN value ELSE m[k]]

\* A With that sets attr in the map the instance already points to.
WithInstanceInPlace(inst, attr, value) ==
    [inst EXCEPT !.contents = WithContents(inst.contents, attr, value)]

\* The instance after With: contents points to a new map; the map it
\* pointed to stays as it is, and stays the persistedContents if it was.
WithInstance(inst, attr, value) ==
    [inst EXCEPT
        !.contents = WithContents(inst.contents, attr, value),
        !.persistedContents =
            IF inst.persistedRef = "contents" THEN inst.contents ELSE @,
        !.persistedRef = IF inst.persistedRef = "contents" THEN "own" ELSE @]

\* A With with a value receiver: it changes a copy of the instance.
WithOnCopy(p, attr, value) ==
    /\ result' = Result("With", <<p>>, NoPanic, <<>>)
    /\ UNCHANGED <<prototypes, setterFuncs, instances, uuidCalls, made, written,
                            builder2>>

\* i.With(attr, value), i the instance at registry position p (every
\* *Instance a caller holds is the pointer the registry holds); returns i.
With(p, attr, value) ==
    /\ instances' = [instances EXCEPT ![p] = WithInstance(instances[p], attr, value)]
    /\ result' = Result("With", <<p>>, NoPanic, <<>>)
    /\ UNCHANGED <<prototypes, setterFuncs, uuidCalls, made, written,
                            builder2>>

(***************************************************************************)
(* Instance.Get                                                             *)
(***************************************************************************)
\* The value of attr in the contents of inst, or the panic.
GetValue(inst, attr) ==
    IF attr \in DOMAIN inst.contents
    THEN [val |-> inst.contents[attr], panic |-> NoPanic]
    ELSE [val |-> "", panic |-> "could not find attribute " \o attr]

\* What Get gives back: the value read through the handle p.
GetResult(p, attr, got) ==
    [op |-> "Get", ret |-> <<p>>, panic |-> got.panic, calls |-> <<>>,
     attr |-> attr, val |-> got.val]

\* i.Get(attr), i the instance at registry position p.
Get(p, attr) ==
    /\ result' = GetResult(p, attr, GetValue(instances[p], attr))
    /\ UNCHANGED <<prototypes, setterFuncs, instances, uuidCalls, made, written,
                            builder2>>

(***************************************************************************)
(* Instance.persist and Builder.Save                                        *)
(***************************************************************************)
Statement(kind, table, set, where) ==
    [kind |-> kind, table |-> table, set |-> set, where |-> where]

\* The map the field persistedContents points to (a nil map has no keys).
PersistedMap(inst) ==
    IF inst.persistedRef = "nil" THEN EmptyMap
    ELSE IF inst.persistedRef = "contents" THEN inst.contents
    ELSE inst.persistedContents

\* INSERT INTO tableName (keys of contents) VALUES (values of contents)
insert(inst) ==
    Statement("INSERT", inst.tableName, inst.contents, EmptyMap)

\* UPDATE tableName SET contents WHERE k = v for each k, v of
\* persistedContents (ranging over a nil map adds nothing).
update(inst) ==
    Statement("UPDATE", inst.tableName, inst.contents, PersistedMap(inst))

\* A persist that never looks at the persisted flag.
PersistStatementInsert(inst) == insert(inst)

\* The statement persist builds.
PersistStatement(inst) ==
    IF inst.persisted THEN update(inst) ELSE insert(inst)

\* A persist that sets the flag and leaves persistedContents as it was.
PersistedFlagOnly(inst) == [inst EXCEPT !.persisted = TRUE]

\* The instance after a call of save that returned nil: persistedContents
\* is made to point to the map contents points to.
Persisted(inst) ==
    [inst EXCEPT !.persisted = TRUE, !.persistedContents = EmptyMap,
                 !.persistedRef = "contents"]

\* A persist that marks the instance persisted before it calls save.
persistMarkedFirst(inst, outcome) ==
    IF outcome = "sqlerr"
    THEN [inst |-> inst, calls |-> <<>>, err |-> "could not build sql"]
    ELSE [inst |-> Persisted(inst),
          calls |-> <<[stmt |-> PersistStatement(inst),
                       ok |-> outcome = "ok"]>>,
          err |-> IF outcome = "execerr" THEN "could not persist" ELSE ""]

\* A persist that takes the persisted flag back when save fails.
persistUnmarked(inst, outcome) ==
    IF outcome = "sqlerr"
    THEN [inst |-> inst, calls |-> <<>>, err |-> "could not build sql"]
    ELSE IF outcome = "execerr"
    THEN [inst |-> [inst EXCEPT !.persisted = FALSE],
          calls |-> <<[stmt |-> PersistStatement(inst), ok |-> FALSE]>>,
          err |-> "could not persist"]
    ELSE [inst |-> Persisted(inst),
          calls |-> <<[stmt |-> PersistStatement(inst), ok |-> TRUE]>>,
          err |-> ""]

\* A persist that calls save a second time when the first call fails.
persistRetried(inst, outcome) ==
    IF outcome = "sqlerr"
    THEN [inst |-> inst, calls |-> <<>>, err |-> "could not build sql"]
    ELSE IF outcome = "execerr"
    THEN [inst |-> inst,
          calls |-> <<[stmt |-> PersistStatement(inst), ok |-> FALSE],
                      [stmt |-> PersistStatement(inst), ok |-> FALSE]>>,
          err |-> "could not persist"]
    ELSE [inst |-> Persisted(inst),
          calls |-> <<[stmt |-> PersistStatement(inst), ok |-> TRUE]>>,
          err |-> ""]

\* persist: the instance afterwards, the calls made to save, the error.
\* outcome says whether building the SQL fails and whether save fails.
persist(inst, outcome) ==
    IF outcome = "sqlerr"
    THEN [inst |-> inst, calls |-> <<>>, err |-> "could not build sql"]
    ELSE IF outcome = "execerr"
    THEN [inst |-> inst,
          calls |-> <<[stmt |-> PersistStatement(inst), ok |-> FALSE]>>,
          err |-> "could not persist"]
    ELSE [inst |-> Persisted(inst),
          calls |-> <<[stmt |-> PersistStatement(inst), ok |-> TRUE]>>,
          err |-> ""]

\* A Save that walks the registry from its end.
RangeOrderReversed(n) == [i \in 1..n |-> n + 1 - i]

\* for _, instance := range b.instances: the positions in visiting order.
RangeOrder(n) == [i \in 1..n |-> i]

\* One call of the PersistFunc: the instance persisted (its registry
\* position), the statement passed and whether the PersistFunc returned nil.
Call(p, c) == [inst |-> p, stmt |-> c.stmt, ok |-> c.ok]

\* The loop of Save over the positions of order; calls collects what was
\* passed to the PersistFunc.
RECURSIVE SaveLoop(_, _, _, _)
SaveLoop(order, insts, outcomes, calls) ==
    IF order = <<>>
    THEN [instances |-> insts, calls |-> calls, panic |-> NoPanic]
    ELSE IF insts[Head(order)].buildOnly
    THEN SaveLoop(Tail(order), insts, outcomes, calls)
    ELSE LET p == Head(order)
             r == persist(insts[p], outcomes[p])
             called == calls \o [c \in 1..Len(r.calls) |-> Call(p, r.calls[c])]
         IN  IF r.err # ""
             THEN [instances |-> [insts EXCEPT ![p] = r.inst], calls |-> called,
                   panic |-> "error saving " \o insts[p].name \o ": " \o r.err]
             ELSE SaveLoop(Tail(order), [insts EXCEPT ![p] = r.inst],
                           outcomes, called)

\* written after the calls: the contents of each accepted statement.
RECURSIVE Accepted(_, _)
Accepted(w, calls) ==
    IF calls = <<>> THEN w
    ELSE Accepted(IF Head(calls).ok
                  THEN [w EXCEPT ![Head(calls).inst] = <<Head(calls).stmt.set>>]
                  ELSE w,
                  Tail(calls))

Save(failAt, failure) ==
    LET outcomes == [p \in 1..Len(instances) |->
                        IF p = failAt THEN failure ELSE "ok"]
        r == SaveLoop(RangeOrder(Len(instances)), instances, outcomes, <<>>)
    IN  /\ instances' = r.instances
        /\ result' = Result("Save", <<>>, r.panic, r.calls)
        /\ written' = Accepted(written, r.calls)
        /\ UNCHANGED <<prototypes, setterFuncs, uuidCalls, made, builder2>>

(***************************************************************************)
(* Find                                                                     *)
(***************************************************************************)
\* A Find whose instances are not build-only.
NewFoundInstanceSaved(name, table, c) ==
    [name |-> name, tableName |-> table, contents |-> c,
     persistedContents |-> EmptyMap, persistedRef |-> "contents",
     persisted |-> TRUE, buildOnly |-> FALSE]

\* &Instance{persistedContents: c, contents: c, ...}: one map, twice.
NewFoundInstance(name, table, c) ==
    [name |-> name, tableName |-> table, contents |-> c,
     persistedContents |-> EmptyMap, persistedRef |-> "contents",
     persisted |-> TRUE, buildOnly |-> TRUE]

\* A Find that ignores the error of unmarshalling the result.
ResultValidAlways(reply) == TRUE

\* json.Unmarshal of the result into []map[string]interface{}.
ResultValid(reply) ==
    reply.valid /\ \A i \in 1..Len(reply.rows) : JSONValid(reply.rows[i])

ResultContents(reply) ==
    [i \in 1..Len(reply.rows) |-> Unmarshal(reply.rows[i])]

\* A Find that hands the rows out back to front.
FoundInstancesReversed(name, table, contents) ==
    [i \in 1..Len(contents) |->
        NewFoundInstance(name, table, contents[Len(contents) + 1 - i])]

\* The instances Find makes of contents, one per map, in order.
FoundInstances(name, table, contents) ==
    [i \in 1..Len(contents) |-> NewFoundInstance(name, table, contents[i])]

\* What Find gives back, and how often it called the QueryFunc.
FindResult(ret, panic, queried) ==
    [op |-> "Find", ret |-> ret, panic |-> panic, calls |-> <<>>,
     queried |-> queried]

Find(table, query, instanceName, sqlerr, reply) ==
    LET name == OptionalName(table, instanceName)
        contents == ResultContents(reply)
        found == FoundInstances(name, table, contents)
    IN  IF ~JSONValid(query)
        THEN /\ result' = FindResult(<<>>, "could not build query", 0)
             /\ UNCHANGED <<prototypes, setterFuncs, instances, uuidCalls,
                            made, written, builder2>>
        ELSE IF sqlerr
        THEN /\ result' = FindResult(<<>>, "could not build sql", 0)
             /\ UNCHANGED <<prototypes, setterFuncs, instances, uuidCalls,
                            made, written, builder2>>
        ELSE IF reply.err
        THEN /\ result' = FindResult(<<>>, "could not query", 1)
             /\ UNCHANGED <<prototypes, setterFuncs, instances, uuidCalls,
                            made, written, builder2>>
        ELSE IF ~ResultValid(reply)
        THEN /\ result' = FindResult(<<>>,
                                     "could not unmarshal query result", 1)
             /\ UNCHANGED <<prototypes, setterFuncs, instances, uuidCalls,
                            made, written, builder2>>
        ELSE /\ Len(instances) + Len(contents) <= MaxInstances
             /\ instances' = instances \o found
             /\ made' = made \o [i \in 1..Len(contents) |->
                                    [by |-> "Find",
                                     proto |-> Prototype(table, <<>>, TRUE, None),
                                     contents |-> contents[i]]]
             /\ result' = FindResult([i \in 1..Len(contents) |->
                                          Len(instances) + i],
                                      NoPanic, 1)
             /\ written' = written \o [i \in 1..Len(contents) |-> <<>>]
             /\ UNCHANGED <<prototypes, setterFuncs, uuidCalls, builder2>>

(***************************************************************************)
(* Two Builders                                                             *)
(***************************************************************************)
\* Default generators kept in one package-level map.
PackageSetterFuncs == {"setterFuncs"}

\* The fields of a Builder that every Builder would share because they are
\* package-level values instead of values NewBuilder makes: none.
PackageState == {}

\* The Builder the calls are made on.
Current ==
    [prototypes |-> prototypes, setterFuncs |-> setterFuncs,
     instances |-> instances, made |-> made, written |-> written]

\* The second Builder as its caller finds it.
Second ==
    [prototypes |-> IF "prototypes" \in PackageState
                    THEN prototypes ELSE builder2.prototypes,
     setterFuncs |-> IF "setterFuncs" \in PackageState
                     THEN setterFuncs ELSE builder2.setterFuncs,
     instances |-> IF "instances" \in PackageState
                   THEN instances ELSE builder2.instances,
     made |-> builder2.made, written |-> builder2.written]

\* The caller goes on with the second Builder: the next calls have it as
\* their receiver.
Turn ==
    /\ prototypes' = Second.prototypes
    /\ setterFuncs' = Second.setterFuncs
    /\ instances' = Second.instances
    /\ made' = Second.made
    /\ written' = Second.written
    /\ builder2' = Current
    /\ result' = Result("Turn", <<>>, NoPanic, <<>>)
    /\ UNCHANGED uuidCalls

(***************************************************************************)
(* The calls a test can make, in any order.  Next is every call with every  *)
(* argument of the model; the three specifications below each make the      *)
(* calls of one kind of test, with the arguments that kind of test uses.    *)
(***************************************************************************)
Next ==
    \/ \E prototype \in Prototypes : LoadPrototype(prototype)
    \/ \E name \in SetterNames, f \in SetterFuncs : LoadSetterFunc(name, f)
    \/ \E prototypeName \in PrototypeNames, instanceName \in InstanceNames :
          Build(prototypeName, instanceName)
    \/ \E name \in LookupNames, index \in LookupIndexes : Instance(name, index)
    \/ \E p \in 1..Len(instances), attr \in HandleAttrs, value \in WithValues :
          With(p, attr, value)
    \/ \E p \in 1..Len(instances), attr \in GetAttrs : Get(p, attr)
    \/ \E failAt \in 0..Len(instances), failure \in Outcomes \ {"ok"} :
          Save(failAt, failure)
    \/ \E table \in Tables, instanceName \in InstanceNames,
          in \in FindInputs(MaxInstances - Len(instances)) :
          Find(table, in[1], instanceName, in[2], in[3])

Spec == Init /\ [][Next]_vars

\* Tests that build, find, change and save instances.
NextPersist ==
    \/ \E prototype \in PersistPrototypes : LoadPrototype(prototype)
    \/ \E prototypeName \in {"users"} : Build(prototypeName, None)
    \/ \E p \in 1..Len(instances), attr \in WithAttrs, value \in WithValues :
          With(p, attr, value)
    \/ \E failAt \in 0..Len(instances), failure \in Outcomes \ {"ok"} :
          Save(failAt, failure)
    \/ \E table \in Tables,
          in \in FoundInputs(MaxInstances - Len(instances)) :
          Find(table, in[1], None, in[2], in[3])

SpecPersist == Init /\ [][NextPersist]_vars

\* Tests that build and find instances and look them up by name.
NextLookup ==
    \/ \E prototype \in LookupPrototypes : LoadPrototype(prototype)
    \/ \E prototypeName \in {"users"}, instanceName \in InstanceNames :
          Build(prototypeName, instanceName)
    \/ \E name \in LookupNames, index \in LookupIndexes : Instance(name, index)
    \/ \E table \in Tables, instanceName \in InstanceNames,
          in \in FindInputs(MaxInstances - Len(instances)) :
          Find(table, in[1], instanceName, in[2], in[3])

SpecLookup == Init /\ [][NextLookup]_vars

\* Tests that load prototypes and setter functions and build from them.
NextBuild ==
    \/ \E prototype \in Prototypes : LoadPrototype(prototype)
    \/ \E name \in SetterNames, f \in SetterFuncs : LoadSetterFunc(name, f)
    \/ \E prototypeName \in PrototypeNames, instanceName \in InstanceNames :
          Build(prototypeName, instanceName)

SpecBuild == Init /\ [][NextBuild]_vars

\* Tests that build and find instances, change them with With and read
\* them through the handles they hold and through Instance.
NextHandles ==
    \/ \E prototype \in LookupPrototypes : LoadPrototype(prototype)
    \/ \E prototypeName \in {"users"} : Build(prototypeName, None)
    \/ \E p \in 1..Len(instances), attr \in HandleAttrs, value \in WithValues :
          With(p, attr, value)
    \/ \E p \in 1..Len(instances), attr \in GetAttrs : Get(p, attr)
    \/ \E table \in Tables, in \in FoundInputs(OneRow) :
          Find(table, in[1], None, in[2], in[3])

SpecHandles == Init /\ [][NextHandles]_vars

\* Tests that save instances with and without columns and rows found.
NextEmpty ==
    \/ \E prototype \in EmptyPrototypes : LoadPrototype(prototype)
    \/ \E prototypeName \in {"users"} : Build(prototypeName, None)
    \/ \E p \in 1..Len(instances), attr \in WithAttrs, value \in WithValues :
          With(p, attr, value)
    \/ \E failAt \in 0..Len(instances), failure \in Outcomes \ {"ok"} :
          Save(failAt, failure)
    \/ \E table \in Tables, in \in FoundInputs(OneRow) :
          Find(table, in[1], None, in[2], in[3])

SpecEmpty == Init /\ [][NextEmpty]_vars

\* Every call of the Builder and of its instances, on a store that answers
\* with at most one row.
NextCalls ==
    \/ \E prototype \in PersistPrototypes : LoadPrototype(prototype)
    \/ \E name \in SetterNames, f \in SetterFuncs : LoadSetterFunc(name, f)
    \/ \E prototypeName \in {"users"} : Build(prototypeName, None)
    \/ \E name \in {"users"}, index \in {None} : Instance(name, index)
    \/ \E p \in 1..Len(instances), attr \in WithAttrs, value \in WithValues :
          With(p, attr, value)
    \/ \E failAt \in 0..Len(instances), failure \in Outcomes \ {"ok"} :
          Save(failAt, failure)
    \/ \E table \in Tables, in \in FoundInputs(OneRow) :
          Find(table, in[1], None, in[2], in[3])

SpecCalls == Init /\ [][NextCalls]_vars

\* Tests with two Builders, each with its prototypes, setter functions and
\* instances.
NextTwo ==
    \/ \E prototype \in PersistPrototypes : LoadPrototype(prototype)
    \/ \E name \in SetterNames, f \in SetterFuncs : LoadSetterFunc(name, f)
    \/ \E prototypeName \in {"users"} :
          Len(instances) < MaxEach /\ Build(prototypeName, None)
    \/ \E p \in 1..Len(instances), attr \in WithAttrs, value \in WithValues :
          With(p, attr, value)
    \/ \E failAt \in 0..Len(instances), failure \in Outcomes \ {"ok"} :
          Save(failAt, failure)
    \/ \E table \in Tables, in \in FoundInputs(OneRow) :
          Len(instances) < MaxEach /\ Find(table, in[1], None, in[2], in[3])
    \/ Turn

SpecTwo == Init /\ [][NextTwo]_vars

(***************************************************************************)
(* Properties.                                                              *)
(***************************************************************************)
\* Registry entry p is transient: Find returned it, or it was built from a
\* prototype whose BuildOnly flag was set.
Transient(p) == made[p].by = "Find" \/ made[p].proto.BuildOnly

\* The calls the last call made to the PersistFunc.
Calls == result.calls

C2_InsertThenUpdate ==
    [][ \A c \in 1..Len(result'.calls) :
            LET call == result'.calls[c]
            IN  /\ call.stmt.kind \in {"INSERT", "UPDATE"}
                /\ call.stmt.kind = "INSERT" <=> ~instances[call.inst].persisted
                /\ written[call.inst] # <<>> => call.stmt.kind = "UPDATE" ]_vars

\* An instance that an earlier Save inserted was updated by this Save.
C2_Witness ==
    /\ result.op = "Save"
    /\ \E c \in 1..Len(Calls) :
          /\ Calls[c].stmt.kind = "UPDATE" /\ Calls[c].ok
          /\ made[Calls[c].inst].by = "Build"

\* C3: With never changes a persistedContents snapshot taken earlier (by a
\* successful Save or by Find); the WHERE values of an UPDATE are the
\* contents written by the instance's previous successful Save and its SET
\* values are the instance's contents at the time of the UPDATE.
C3_SnapshotKept ==
    [][ /\ result'.op = "With" =>
              \A p \in 1..Len(instances) :
                  /\ instances'[p].persisted = instances[p].persisted
                  /\ PersistedMap(instances'[p]) = PersistedMap(instances[p])
        /\ \A c \in 1..Len(result'.calls) :
              LET call == result'.calls[c]
              IN  /\ call.stmt.set = instances[call.inst].contents
                  /\ (call.stmt.kind = "UPDATE" /\ written[call.inst] # <<>>)
                        => call.stmt.where = written[call.inst][1] ]_vars

\* Save, With, Save: an UPDATE was issued whose WHERE values are the
\* contents as built and inserted and whose SET values are those after With.
C3_Witness ==
    /\ result.op = "Save"
    /\ \E c \in 1..Len(Calls) :
          /\ Calls[c].stmt.kind = "UPDATE"
          /\ made[Calls[c].inst].by = "Build"
          /\ Calls[c].stmt.where = made[Calls[c].inst].contents
          /\ Calls[c].stmt.set # Calls[c].stmt.where
          /\ "username" \in DOMAIN Calls[c].stmt.set
          /\ Calls[c].stmt.set["username"] = "johnny"

\* C4: within one Save the statements are issued in registry order: of two
\* calls of the PersistFunc, the earlier one is for the earlier registry
\* entry.
C4_RegistryOrder ==
    \A c, d \in 1..Len(Calls) : c < d => Calls[c].inst < Calls[d].inst

\* One Save issued statements for three instances.
C4_Witness ==
    result.op = "Save" /\ Len(Calls) = 3

\* C5: when the PersistFunc fails for an instance, Save panics; nothing is
\* issued for a later instance, the failing instance and all later ones are
\* unchanged, and the instances persisted earlier in that Save stay
\* persisted with their contents as the new snapshot.
C5_StopAtFirstFailure ==
    [][ (Len(result'.calls) > 0 /\ ~result'.calls[Len(result'.calls)].ok) =>
            LET calls == result'.calls
                f == calls[Len(calls)].inst
            IN  /\ result'.op = "Save" /\ result'.panic # NoPanic
                /\ Len(instances') = Len(instances)
                /\ \A c \in 1..Len(calls) : calls[c].inst <= f
                /\ \A c \in 1..(Len(calls) - 1) : calls[c].ok
                /\ \A p \in f..Len(instances) : instances'[p] = instances[p]
                /\ \A p \in 1..(f - 1) :
                      ~instances[p].buildOnly =>
                          /\ instances'[p].persisted
                          /\ PersistedMap(instances'[p]) = instances[p].contents
                          /\ \E c \in 1..Len(calls) :
                                calls[c].inst = p /\ calls[c].ok ]_vars

\* A Save failed at the second of three instances: the first is persisted,
\* the second and third are not.
C5_Witness ==
    /\ Len(instances) = 3 /\ Len(Calls) = 2
    /\ result.op = "Save" /\ result.panic # NoPanic
    /\ Calls[1].inst = 1 /\ Calls[1].ok /\ Calls[2].inst = 2 /\ ~Calls[2].ok
    /\ instances[1].persisted
    /\ ~instances[2].persisted /\ ~instances[2].buildOnly
    /\ ~instances[3].persisted /\ ~instances[3].buildOnly

\* The registry positions of the entries named name.
Named(insts, name) == {p \in 1..Len(insts) : insts[p].name = name}

\* C6: Instance(name) returns the first registry entry named name and
\* Instance(name, k) the (k+1)-th in registration order, whether Build or
\* Find added them; with fewer than k+1 entries of that name it panics.
C6_InstanceByNameAndIndex ==
    [][ \A name \in LookupNames, index \in LookupIndexes :
            Instance(name, index) =>
                LET k == OptionalIndex(index)
                    named == Named(instances, name)
                IN  IF Cardinality(named) >= k + 1
                    THEN /\ result'.panic = NoPanic
                         /\ Len(result'.ret) = 1
                         /\ result'.ret[1] \in named
                         /\ Cardinality({q \in named : q < result'.ret[1]}) = k
                    ELSE /\ result'.panic # NoPanic
                         /\ result'.ret = <<>> ]_vars

\* Instance(name, 1) returned the third registry entry: the second of its
\* name, after an entry of another name, one of the two made by Find and
\* the other by Build.
C6_Witness ==
    /\ result.op = "Instance" /\ result.ret = <<3>>
    /\ Len(instances) = 3
    /\ instances[1].name = instances[3].name
    /\ instances[2].name # instances[3].name
    /\ made[1].by # made[3].by

\* The key the documentation gives a prototype: its alias when it has one,
\* else its table name.
DocumentedKey(prototype) ==
    IF Len(prototype.Name) > 0 THEN prototype.Name[1] ELSE prototype.TableName

\* C7: LoadPrototype stores a prototype under its alias (Prototype.Name)
\* when one is given and under its table name otherwise.
C7_StoredUnderAlias ==
    \A key \in DOMAIN prototypes : key = DocumentedKey(prototypes[key])

\* The keys of an outline whose value is the marker {{uuid}}.
UuidKeys(outline) ==
    {outline[f][1] : f \in {g \in 1..Len(outline) : outline[g][2] = "{{uuid}}"}}

\* C8: within one Build every occurrence of a marker gets the value of its
\* own generator call: with the uuid generator, which never returns a value
\* twice, two positions holding {{uuid}} get different values.
C8_FreshPerOccurrence ==
    \A p \in 1..Len(made) :
        made[p].by = "Build" =>
            \A k1, k2 \in UuidKeys(made[p].proto.Outline) :
                k1 # k2 => made[p].contents[k1] # made[p].contents[k2]

\* C9: the instances built from the same prototype with {{uuid}} in its
\* outline have pairwise distinct values in its place.
C9_DistinctAcrossBuilds ==
    \A p, q \in 1..Len(made) :
        (p # q /\ made[p].by = "Build" /\ made[q].by = "Build"
               /\ made[p].proto.Outline = made[q].proto.Outline) =>
            \A k \in UuidKeys(made[p].proto.Outline) :
                made[p].contents[k] # made[q].contents[k]

\* Three instances were built from one prototype with {{uuid}} in its
\* outline.
C9_Witness ==
    /\ Len(made) = 3
    /\ \A p \in 1..3 :
          /\ made[p].by = "Build"
          /\ made[p].proto = made[1].proto
          /\ UuidKeys(made[p].proto.Outline) # {}

\* What a row's JSON text says: its keys and the value of each.
RowIs(m, row) ==
    /\ DOMAIN m = {row[f][1] : f \in 1..Len(row)}
    /\ \A f \in 1..Len(row) : m[row[f][1]] = row[f][2]

\* C10: a successful Find makes one instance per returned row, persisted
\* and transient, with contents and persistedContents equal to the row and
\* named by the given name or else the table; it appends them to the
\* registry in the order returned and returns them in that order, so that
\* Instance(name, k) is the k-th returned one when no earlier entry has
\* that name.
C10_FindAppendsRows ==
    [][ \A table \in Tables, instanceName \in InstanceNames,
           in \in FindInputs(MaxInstances - Len(instances)) :
            ( /\ Find(table, in[1], instanceName, in[2], in[3])
              /\ result'.panic = NoPanic ) =>
                LET rows == in[3].rows
                    old == Len(instances)
                    name == IF instanceName = None THEN table
                            ELSE instanceName[1]
                IN  /\ Len(instances') = old + Len(rows)
                    /\ SubSeq(instances', 1, old) = instances
                    /\ Len(result'.ret) = Len(rows)
                    /\ \A r \in 1..Len(rows) :
                          LET inst == instances'[old + r]
                          IN  /\ result'.ret[r] = old + r
                              /\ inst.persisted /\ inst.buildOnly
                              /\ inst.name = name
                              /\ inst.tableName = table
                              /\ RowIs(inst.contents, rows[r])
                              /\ inst.persistedRef # "nil"
                              /\ RowIs(PersistedMap(inst), rows[r])
                              /\ Named(instances, name) = {} =>
                                    InstanceLookup(instances', name, <<r - 1>>)
                                        = result'.ret[r] ]_vars

\* A Find returned two different rows, appended behind an earlier entry.
C10_Witness ==
    /\ result.op = "Find" /\ result.panic = NoPanic
    /\ result.ret = <<2, 3>>
    /\ Len(instances) = 3
    /\ instances[2].persisted /\ instances[3].persisted
    /\ instances[2].contents # instances[3].contents
    /\ instances[1].name # instances[2].name

\* C11: an instance obtained from Find and then changed with With is written
\* back by the next Save: after a Save that completed, the last statement
\* the PersistFunc accepted for it carries the username set by With.
C11_FoundWrittenBack ==
    (result.op = "Save" /\ result.panic = NoPanic) =>
        \A p \in 1..Len(instances) :
            ( /\ made[p].by = "Find"
              /\ "username" \in DOMAIN instances[p].contents
              /\ instances[p].contents # made[p].contents ) =>
                /\ written[p] # <<>>
                /\ written[p][1]["username"] = instances[p].contents["username"]

\* C12: every handle to an instance is the pointer the registry holds:
\* after With(k, v) through a handle, Get(k) through that handle and
\* through every Instance lookup that returns the instance gives v; every
\* lookup that returned the instance before still returns it, and an
\* instance changes only by a With through a handle to it.
C12_LiveReference ==
    [][ /\ \A p \in 1..Len(instances), attr \in HandleAttrs, value \in WithValues :
              With(p, attr, value) =>
                  /\ result'.ret = <<p>>
                  /\ GetValue(instances'[p], attr) =
                        [val |-> value, panic |-> NoPanic]
                  /\ \A name \in LookupNames, index \in LookupIndexes :
                        /\ InstanceLookup(instances', name, index) =
                              InstanceLookup(instances, name, index)
                        /\ InstanceLookup(instances', name, index) = p =>
                              GetValue(instances'[InstanceLookup(instances', name, index)],
                                       attr).val = value
        /\ \A p \in 1..Len(instances) :
              instances'[p] # instances[p] =>
                  result'.op = "With" /\ result'.ret = <<p>> ]_vars

\* Get through the handle Instance("users", 2) returns reads the email set
\* by an earlier With on the third registry entry, of which the first was
\* built and the third found or the other way round.
C12_Witness ==
    /\ result.op = "Get" /\ result.panic = NoPanic
    /\ result.ret = <<3>> /\ result.attr = "email" /\ result.val = "johnny"
    /\ InstanceLookup(instances, "users", <<2>>) = 3
    /\ made[1].by # made[3].by
    /\ "email" \notin DOMAIN made[3].contents

\* C17: With(k, v) sets only key k of contents: Get(k) then gives v, every
\* other key keeps its value, no key is removed, persisted and
\* persistedContents are unchanged and the instance it was called on is
\* returned; Get of a key contents does not have panics.
C17_WithSetsOneKey ==
    [][ /\ \A p \in 1..Len(instances), attr \in HandleAttrs, value \in WithValues :
              With(p, attr, value) =>
                  /\ result'.ret = <<p>> /\ result'.panic = NoPanic
                  /\ DOMAIN instances'[p].contents =
                        DOMAIN instances[p].contents \cup {attr}
                  /\ instances'[p].contents[attr] = value
                  /\ \A k \in DOMAIN instances[p].contents \ {attr} :
                        instances'[p].contents[k] = instances[p].contents[k]
                  /\ instances'[p].persisted = instances[p].persisted
                  /\ instances'[p].persistedRef = "nil" <=>
                        instances[p].persistedRef = "nil"
                  /\ PersistedMap(instances'[p]) = PersistedMap(instances[p])
                  /\ \A q \in 1..Len(instances) \ {p} : instances'[q] = instances[q]
        /\ \A p \in 1..Len(instances), attr \in GetAttrs :
              Get(p, attr) =>
                  IF attr \in DOMAIN instances[p].contents
                  THEN /\ result'.panic = NoPanic
                       /\ result'.val = instances[p].contents[attr]
                  ELSE result'.panic # NoPanic ]_vars

\* A found (persisted) instance was given a new key and had an old one
\* overwritten, its snapshot still the row as found; the last call, a Get
\* of a key never set on another instance, panicked.
C17_Witness ==
    /\ result.op = "Get" /\ result.panic # NoPanic
    /\ \E p \in 1..Len(instances) :
          /\ p # result.ret[1]
          /\ made[p].by = "Find" /\ instances[p].persisted
          /\ DOMAIN instances[p].contents = {"id", "username", "email"}
          /\ instances[p].contents["username"] = "johnny"
          /\ instances[p].contents["id"] = made[p].contents["id"]
          /\ PersistedMap(instances[p]) = made[p].contents

\* C13: a Build that returns appends exactly one instance at the end of the
\* registry, with persisted = false, no persistedContents and buildOnly
\* equal to the prototype's BuildOnly flag, and returns it; the entries
\* already there, same-named ones included, stay as they are.  A Build that
\* panics leaves the registry as it is.
C13_BuildAppendsOne ==
    [][ \A prototypeName \in PrototypeNames, instanceName \in InstanceNames :
            Build(prototypeName, instanceName) =>
                IF result'.panic = NoPanic
                THEN /\ Len(instances') = Len(instances) + 1
                     /\ SubSeq(instances', 1, Len(instances)) = instances
                     /\ result'.ret = <<Len(instances')>>
                     /\ ~instances'[Len(instances')].persisted
                     /\ instances'[Len(instances')].persistedRef = "nil"
                     /\ PersistedMap(instances'[Len(instances')]) = EmptyMap
                     /\ instances'[Len(instances')].buildOnly =
                           prototypes[prototypeName].BuildOnly
                ELSE instances' = instances ]_vars

\* The third of three same-named instances was just built, the first from
\* a BuildOnly prototype and the third from one that is not.
C13_Witness ==
    /\ result.op = "Build" /\ result.ret = <<3>>
    /\ Len(instances) = 3
    /\ instances[1].name = instances[3].name
    /\ instances[2].name = instances[3].name
    /\ instances[1].buildOnly /\ ~instances[3].buildOnly

\* C14: an instance built without an instance name is registered under the
\* prototype key it was built from, one built with a name under that name
\* only; Instance of that name then returns it, as the first entry when no
\* earlier entry has the name and else behind the earlier ones.
C14_DefaultName ==
    [][ \A prototypeName \in PrototypeNames, instanceName \in InstanceNames :
            (Build(prototypeName, instanceName) /\ result'.panic = NoPanic) =>
                LET new == Len(instances')
                    name == IF instanceName = None THEN prototypeName
                            ELSE instanceName[1]
                IN  /\ instances'[new].name = name
                    /\ \A other \in LookupNames \ {name} :
                          Named(instances', other) = Named(instances, other)
                    /\ InstanceLookup(instances', name,
                                      <<Cardinality(Named(instances, name))>>) = new
                    /\ Named(instances, name) = {} =>
                          InstanceLookup(instances', name, None) = new ]_vars

\* Instance("users") returned an instance built without a name, registered
\* behind one built with the name a.
C14_Witness ==
    /\ result.op = "Instance" /\ result.panic = NoPanic
    /\ Len(instances) >= 2
    /\ result.ret = <<2>>
    /\ made[2].by = "Build" /\ instances[2].name = "users"
    /\ made[1].by = "Build" /\ instances[1].name = "a"
    /\ made[1].proto = made[2].proto

\* The keys of an outline, and its values that are no marker.
OutlineKeys(outline) == {outline[f][1] : f \in 1..Len(outline)}
OutlineFixed(outline) ==
    {<<outline[f][1], outline[f][2]>> :
        f \in {g \in 1..Len(outline) : ~IsMarker(outline[g][2])}}

\* C15: loading a prototype under a key in use replaces the earlier one
\* entirely and changes no instance; a later Build of the key has the keys
\* and fixed values of the newest outline only and the newest BuildOnly
\* flag.
C15_LoadReplaces ==
    [][ /\ \A prototype \in Prototypes :
              LoadPrototype(prototype) =>
                  /\ prototypes'[prototype.TableName] = prototype
                  /\ DOMAIN prototypes' = DOMAIN prototypes \cup {prototype.TableName}
                  /\ instances' = instances
        /\ \A prototypeName \in PrototypeNames, instanceName \in InstanceNames :
              (Build(prototypeName, instanceName) /\ result'.panic = NoPanic) =>
                  LET new == instances'[Len(instances')]
                      newest == prototypes[prototypeName]
                  IN  /\ prototypes' = prototypes
                      /\ DOMAIN new.contents = OutlineKeys(newest.Outline)
                      /\ \A kv \in OutlineFixed(newest.Outline) :
                            new.contents[kv[1]] = kv[2]
                      /\ new.buildOnly = newest.BuildOnly ]_vars

\* Two instances built from the same key, before and after a prototype with
\* another outline and another BuildOnly flag was loaded under it.
C15_Witness ==
    /\ result.op = "Build" /\ result.ret = <<2>>
    /\ Len(instances) = 2
    /\ instances[1].tableName = instances[2].tableName
    /\ instances[1].buildOnly /\ ~instances[2].buildOnly
    /\ DOMAIN instances[1].contents = {"id", "username"}
    /\ instances[1].contents["username"] = "jenny"
    /\ DOMAIN instances[2].contents = {"id", "ref"}

\* How often name is in the sequence invoked, and how often its marker is
\* in the outline.
Invocations(invoked, name) ==
    Cardinality({c \in 1..Len(invoked) : invoked[c] = name})
Occurrences(outline, name) ==
    Cardinality({f \in 1..Len(outline) :
                    IsMarker(outline[f][2]) /\ MarkerVar[outline[f][2]] = name})

GeneratorNames == {uuidVar, customVar}

C18_PersistedHasSnapshot ==
    /\ \A p \in 1..Len(instances) :
          instances[p].persisted => PersistedMap(instances[p]) # EmptyMap
    /\ \A c \in 1..Len(Calls) :
          Calls[c].stmt.kind = "UPDATE" => Calls[c].stmt.where # EmptyMap

\* C19: after a Save that completes, every instance that is not build-only
\* has persisted = true and persistedContents equal to its contents, which
\* are those it had when Save was called; every build-only instance is as
\* it was before the Save.
C19_SaveSnapshotsAll ==
    [][ (result'.op = "Save" /\ result'.panic = NoPanic) =>
            /\ Len(instances') = Len(instances)
            /\ \A p \in 1..Len(instances) :
                  IF instances[p].buildOnly
                  THEN instances'[p] = instances[p]
                  ELSE /\ instances'[p].persisted
                       /\ instances'[p].persistedRef # "nil"
                       /\ PersistedMap(instances'[p]) = instances[p].contents
                       /\ instances'[p].contents = instances[p].contents ]_vars

\* A Save completed over a found instance changed by With, whose snapshot
\* is still the row as found, and a built instance changed by With since
\* an earlier Save, whose snapshot is now its changed contents.
C19_Witness ==
    /\ result.op = "Save" /\ result.panic = NoPanic
    /\ \E f, b \in 1..Len(instances) :
          /\ made[f].by = "Find"
          /\ instances[f].contents # made[f].contents
          /\ PersistedMap(instances[f]) = made[f].contents
          /\ made[b].by = "Build" /\ ~instances[b].buildOnly
          /\ instances[b].persisted
          /\ instances[b].contents # made[b].contents
          /\ PersistedMap(instances[b]) = instances[b].contents
          /\ \E c \in 1..Len(Calls) :
                Calls[c].inst = b /\ Calls[c].stmt.kind = "UPDATE"

\* How many of the calls are for registry entry p.
CallsFor(calls, p) == Cardinality({c \in 1..Len(calls) : calls[c].inst = p})

\* C20: one Save calls the PersistFunc at most once per instance and never
\* for a build-only one.  A Save that completes has called it once for
\* every instance that is not build-only (not at all when there is none).
\* A Save that panics at an instance has called it once, successfully, for
\* every earlier instance that is not build-only, not at all for the later
\* ones, and for the instance itself once when it is the PersistFunc that
\* failed and not at all when no statement could be built.
C20_NoRetry ==
    [][ result'.op = "Save" =>
            LET calls == result'.calls
                saved == {p \in 1..Len(instances) : ~instances[p].buildOnly}
                failed == Len(calls) > 0 /\ ~calls[Len(calls)].ok
            IN  /\ \A p \in 1..Len(instances) :
                      CallsFor(calls, p) <= 1 /\ (p \notin saved => CallsFor(calls, p) = 0)
                /\ \A c \in 1..(Len(calls) - 1) : calls[c].ok
                /\ saved = {} => (calls = <<>> /\ result'.panic = NoPanic)
                /\ IF result'.panic = NoPanic
                   THEN ~failed /\ \A p \in saved : CallsFor(calls, p) = 1
                   ELSE \E f \in saved :
                          /\ \A p \in saved : p < f => CallsFor(calls, p) = 1
                          /\ \A p \in saved : p > f => CallsFor(calls, p) = 0
                          /\ CallsFor(calls, f) = IF failed THEN 1 ELSE 0
                          /\ failed => calls[Len(calls)].inst = f ]_vars

\* A Save over a found instance and two built ones: nothing for
\* the found one, one accepted call for the second entry, one failed call
\* for the third.
C20_Witness ==
    /\ result.op = "Save" /\ result.panic # NoPanic
    /\ Len(instances) = 3 /\ made[1].by = "Find"
    /\ ~instances[2].buildOnly /\ ~instances[3].buildOnly
    /\ Len(Calls) = 2
    /\ Calls[1].inst = 2 /\ Calls[1].ok
    /\ Calls[2].inst = 3 /\ ~Calls[2].ok

\* The names the markers of an outline capture.
OutlineVars(outline) ==
    {MarkerVar[outline[f][2]] :
        f \in {g \in 1..Len(outline) : IsMarker(outline[g][2])}}

\* C21: a Build whose prototype key is unknown, whose outline has a marker
\* naming no registered generator, or whose expanded outline is no valid
\* JSON panics and returns nothing, and the registry and every instance in
\* it are as before; every other Build returns.
C21_FailedBuildAppendsNothing ==
    [][ \A prototypeName \in PrototypeNames, instanceName \in InstanceNames :
            Build(prototypeName, instanceName) =>
                LET unknown == prototypeName \notin DOMAIN prototypes
                    outline == prototypes[prototypeName].Outline
                    fails ==
                        \/ unknown
                        \/ ~(OutlineVars(outline) \subseteq DOMAIN setterFuncs)
                        \/ \E f \in 1..Len(outline) : outline[f][2] = BadJSON
                IN  IF fails
                    THEN /\ result'.panic # NoPanic
                         /\ result'.ret = <<>>
                         /\ instances' = instances
                    ELSE result'.panic = NoPanic ]_vars

\* A Build has just panicked over a marker without generator, with two
\* instances in the registry.
C21_Witness ==
    /\ result.op = "Build"
    /\ result.panic = "no setter function found"
    /\ Len(instances) = 2
    /\ customVar \notin DOMAIN setterFuncs

\* C22: a Find whose filter text is no JSON, whose statement cannot be
\* built, whose QueryFunc returns an error or whose result does not parse
\* panics, returns nothing and leaves the registry as it was; with a filter
\* that does not parse (or a statement that cannot be built) the QueryFunc
\* is not called, otherwise it is called once.  Every other Find returns.
C22_FailedFindAppendsNothing ==
    [][ \A table \in Tables, instanceName \in InstanceNames,
           in \in FindInputs(MaxInstances - Len(instances)) :
            Find(table, in[1], instanceName, in[2], in[3]) =>
                LET filterBad == ~JSONValid(in[1])
                    unbuilt == ~filterBad /\ in[2]
                    fails == \/ filterBad
                             \/ unbuilt
                             \/ in[3].err
                             \/ ~in[3].valid
                             \/ \E r \in 1..Len(in[3].rows) :
                                   ~JSONValid(in[3].rows[r])
                IN  /\ IF fails
                       THEN /\ result'.panic # NoPanic
                            /\ result'.ret = <<>>
                            /\ instances' = instances
                       ELSE result'.panic = NoPanic
                    /\ result'.queried =
                          IF filterBad \/ unbuilt THEN 0 ELSE 1 ]_vars

\* A Find has just panicked over a result that is no JSON array, after the
\* one call of the QueryFunc, with instances in the registry.
C22_Witness ==
    /\ result.op = "Find"
    /\ result.panic = "could not unmarshal query result"
    /\ result.queried = 1
    /\ Len(instances) = 2

\* C23: the registry only grows at its end and the persisted flag only
\* rises: in every step every entry stays at its position with its name,
\* table name, buildOnly flag and id (which no With of these calls sets),
\* and an entry that is persisted stays persisted.
C23_AppendOnlyMonotone ==
    [][ /\ Len(instances') >= Len(instances)
        /\ \A p \in 1..Len(instances) :
              /\ instances'[p].name = instances[p].name
              /\ instances'[p].tableName = instances[p].tableName
              /\ instances'[p].buildOnly = instances[p].buildOnly
              /\ made'[p] = made[p]
              /\ "id" \in DOMAIN instances[p].contents =>
                    /\ "id" \in DOMAIN instances'[p].contents
                    /\ instances'[p].contents["id"] = instances[p].contents["id"]
              /\ instances[p].persisted => instances'[p].persisted ]_vars

\* A Save has just failed at a built instance that an earlier Save had
\* persisted and a With had changed since; a found instance is registered
\* before it and another instance behind it.
C23_Witness ==
    /\ result.op = "Save" /\ result.panic # NoPanic
    /\ Len(instances) = 3
    /\ made[1].by = "Find" /\ made[2].by = "Build"
    /\ Len(Calls) = 1 /\ Calls[1].inst = 2 /\ ~Calls[1].ok
    /\ Calls[1].stmt.kind = "UPDATE"
    /\ instances[2].persisted
    /\ instances[2].contents # made[2].contents

\* C24: a call on one Builder leaves the prototypes, the setter functions,
\* the registry and the instances of the other Builder as they are; going
\* over to the other Builder finds it as it was left; and the statements
\* of a Save are for instances of the registry of the Builder saved, none
\* for an instance of the other.
C24_BuildersApart ==
    [][ /\ result'.op # "Turn" => Second' = Second
        /\ result'.op = "Turn" => (Current' = Second /\ Second' = Current)
        /\ \A c \in 1..Len(result'.calls) :
              LET call == result'.calls[c]
              IN  /\ call.inst \in 1..Len(instances)
                  /\ ~instances[call.inst].buildOnly
                  /\ call.stmt.set = instances[call.inst].contents
                  /\ \A q \in 1..Len(Second.instances) :
                        ~Second.instances[q].buildOnly =>
                            call.stmt.set # Second.instances[q].contents ]_vars

\* One Builder with a setter function of its own has just saved its
\* instance; the other Builder, without that setter function, holds a built
\* instance that is not persisted.
C24_Witness ==
    /\ result.op = "Save" /\ result.panic = NoPanic
    /\ Len(Calls) = 1 /\ Calls[1].ok
    /\ customVar \in DOMAIN setterFuncs
    /\ customVar \notin DOMAIN Second.setterFuncs
    /\ Second.prototypes # prototypes
    /\ Len(Second.instances) >= 1
    /\ ~Second.instances[1].buildOnly /\ ~Second.instances[1].persisted

====
